---- MODULE Spec2Model ----
(***************************************************************************)
(* State-machine model of the quotation maker (App component, its          *)
(* numbering initializer, derived totals and line-item handlers) and of    *)
(* the description-generation helper.                                      *)
(*                                                                         *)
(* Strings are sequences of one-character strings, so that startsWith,     *)
(* substring, parseInt, toString and padStart are computed character by    *)
(* character as the JavaScript built-ins compute them.                     *)
(***************************************************************************)
EXTENDS Integers, Sequences, FiniteSets

VARIABLES
    localStorage,     \* window.localStorage: a map from keys to strings
    today,            \* the clock read by new Date(): [year, month], month 0-based
    mounted,          \* TRUE once App's state initializers have run
    quotation,        \* useState<Quotation>
    totals,           \* the useMemo result of the last render
    isDownloading,    \* useState(false)
    generatingItems,  \* useState<Set<string>>
    calls,            \* handleGenerateDescription invocations awaiting the helper
    exporting,        \* TRUE while handleDownloadPdf awaits html2canvas
    uuids,            \* number of tokens crypto.randomUUID has returned
    API_KEY,          \* process.env.API_KEY: TRUE when a key is configured
    events,           \* number of user events handled since the component mounted
    alerts,           \* the messages window.alert has shown since the component mounted
    exportNumber,     \* quotation.quotationNumber in the closure of a pending export
    helper,           \* one invocation of generateDescription, step by step
    lastSession       \* history: what the latest mount read and seeded

vars == <<localStorage, today, mounted, quotation, totals, isDownloading,
          generatingItems, calls, exporting, uuids, API_KEY, events, alerts,
          exportNumber, helper, lastSession>>

-----------------------------------------------------------------------------
(* Bounds of the model *)

\* longest suffix drawn for a persisted identifier in the numbering specification
MaxSuffixLen == 3

\* number of tokens crypto.randomUUID may hand out
MaxUuids == 3

\* number of user events (clicks, edits) handled after the component mounts
MaxEvents == 5

\* longest item list drawn as an input of the totals computation
MaxTotalsItems == 2

-----------------------------------------------------------------------------
(* JavaScript string and number built-ins *)

Digits == <<"0", "1", "2", "3", "4", "5", "6", "7", "8", "9">>

IsDigit(c) == \E i \in 1..10 : Digits[i] = c

DigitValue(c) == (CHOOSE i \in 1..10 : Digits[i] = c) - 1

\* Number.prototype.toString() of a non-negative integer
RECURSIVE NatToString(_)
NatToString(n) ==
    IF n < 10 THEN <<Digits[n + 1]>>
    ELSE NatToString(n \div 10) \o <<Digits[(n % 10) + 1]>>

\* Number.prototype.toString() of an integer
ToString(n) == IF n < 0 THEN <<"-">> \o NatToString(0 - n) ELSE NatToString(n)

\* String.prototype.padStart(targetLength, padChar) with a one-character pad
RECURSIVE PadStart(_, _, _)
PadStart(s, targetLength, padChar) ==
    IF Len(s) >= targetLength THEN s
    ELSE PadStart(<<padChar>> \o s, targetLength, padChar)

\* String.prototype.startsWith(searchString)
StartsWith(s, searchString) ==
    /\ Len(s) >= Len(searchString)
    /\ SubSeq(s, 1, Len(searchString)) = searchString

\* String.prototype.substring(indexStart), indexStart 0-based and <= length
Substring(s, indexStart) == SubSeq(s, indexStart + 1, Len(s))

\* leading white space is skipped by parseInt and removed by trim
RECURSIVE TrimStart(_)
TrimStart(s) ==
    IF s # <<>> /\ Head(s) = " " THEN TrimStart(Tail(s)) ELSE s

RECURSIVE TrimEnd(_)
TrimEnd(s) ==
    IF s # <<>> /\ s[Len(s)] = " " THEN TrimEnd(SubSeq(s, 1, Len(s) - 1)) ELSE s

\* String.prototype.trim()
Trim(s) == TrimEnd(TrimStart(s))

\* the longest prefix of s made of decimal digits
RECURSIVE LeadingDigits(_)
LeadingDigits(s) ==
    IF s # <<>> /\ IsDigit(Head(s)) THEN <<Head(s)>> \o LeadingDigits(Tail(s))
    ELSE <<>>

RECURSIVE DigitsValue(_)
DigitsValue(ds) ==
    IF ds = <<>> THEN 0
    ELSE DigitsValue(SubSeq(ds, 1, Len(ds) - 1)) * 10 + DigitValue(ds[Len(ds)])

\* the number NaN, and a finite number
NaN == [nan |-> TRUE, value |-> 0]
Num(n) == [nan |-> FALSE, value |-> n]
isNaN(x) == x.nan

\* parseInt(s, 10): skip white space, read an optional sign, then the longest
\* run of digits; NaN when there is no digit
ParseInt(s) ==
    LET t      == TrimStart(s)
        signed == t # <<>> /\ Head(t) \in {"-", "+"}
        body   == IF signed THEN Tail(t) ELSE t
        ds     == LeadingDigits(body)
    IN  IF ds = <<>> THEN NaN
        ELSE IF signed /\ Head(t) = "-" THEN Num(0 - DigitsValue(ds))
        ELSE Num(DigitsValue(ds))

-----------------------------------------------------------------------------
(* window.localStorage *)

LastKey == "lastQuotationNumber"

EmptyStorage == [k \in {} |-> <<>>]

\* localStorage.getItem(key): null when the key is absent
Null == [isNull |-> TRUE, str |-> <<>>]
Str(s) == [isNull |-> FALSE, str |-> s]
GetItem(store, key) == IF key \in DOMAIN store THEN Str(store[key]) ELSE Null

\* localStorage.setItem(key, value)
SetItem(store, key, value) ==
    [k \in (DOMAIN store) \cup {key} |-> IF k = key THEN value ELSE store[k]]

\* truthiness of a string-or-null: null and "" are falsy
Truthy(v) == ~v.isNull /\ v.str # <<>>

-----------------------------------------------------------------------------
(* Quotation numbering: the useState initializer of App *)

\* `AEE-${year}${month}-` with month = (getMonth() + 1).toString().padStart(2, '0')
Prefix(date) ==
    <<"A", "E", "E", "-">> \o ToString(date.year)
        \o PadStart(ToString(date.month + 1), 2, "0") \o <<"-">>

\* NextSequence with the increment forgotten: the last sequence is issued again
NextSequenceNoIncrement(lastNumberStr, prefix) ==
    IF Truthy(lastNumberStr) /\ StartsWith(lastNumberStr.str, prefix)
    THEN LET lastSequence == ParseInt(Substring(lastNumberStr.str, Len(prefix)))
         IN  IF ~isNaN(lastSequence) THEN lastSequence.value ELSE 1
    ELSE 1

\* NextSequence with the startsWith test forgotten: any stored identifier counts
NextSequenceAnyMonth(lastNumberStr, prefix) ==
    IF Truthy(lastNumberStr) /\ Len(lastNumberStr.str) >= Len(prefix)
    THEN LET lastSequence == ParseInt(Substring(lastNumberStr.str, Len(prefix)))
         IN  IF ~isNaN(lastSequence) THEN lastSequence.value + 1 ELSE 1
    ELSE 1

\* let nextSequence = 1; if (lastNumberStr && lastNumberStr.startsWith(prefix)) {
\*   const lastSequence = parseInt(lastNumberStr.substring(prefix.length), 10);
\*   if (!isNaN(lastSequence)) nextSequence = lastSequence + 1; }
NextSequence(lastNumberStr, prefix) ==
    IF Truthy(lastNumberStr) /\ StartsWith(lastNumberStr.str, prefix)
    THEN LET lastSequence == ParseInt(Substring(lastNumberStr.str, Len(prefix)))
         IN  IF ~isNaN(lastSequence) THEN lastSequence.value + 1 ELSE 1
    ELSE 1

\* months the clock may show: December 2023 and January 2024
Dates == {[year |-> 2023, month |-> 11], [year |-> 2024, month |-> 0]}

\* the prefixes of January 2024 and December 2023, written out
Jan2024 == [year |-> 2024, month |-> 0]
AEE202401 == <<"A", "E", "E", "-", "2", "0", "2", "4", "0", "1", "-">>
AEE202312 == <<"A", "E", "E", "-", "2", "0", "2", "3", "1", "2", "-">>

\* `${prefix}${nextSequence.toString().padStart(3, '0')}`
NewQuotationNumber(store, date) ==
    LET lastNumberStr == GetItem(store, LastKey)
        prefix        == Prefix(date)
    IN  prefix \o PadStart(ToString(NextSequence(lastNumberStr, prefix)), 3, "0")

-----------------------------------------------------------------------------
(* The Quotation state and the derived totals *)

\* an optional field that is not set
Undefined == "undefined"

\* { id: crypto.randomUUID(), description: '', quantity: 1, rate: 0 }
\* The k-th token crypto.randomUUID returns is modelled as the number k.
NewItem(uuid) == [id |-> uuid, description |-> <<>>, quantity |-> 1, rate |-> 0]

\* initialQuotation, built when the module loads.  The fields kept are the
\* ones the handlers below read or write; company, client, the two dates and
\* the terms are plain text fields with no logic and are left out.
initialQuotation(date, uuid) ==
    [ quotationNumber     |-> Prefix(date) \o <<"0", "0", "1">>,
      items               |-> <<NewItem(uuid)>>,
      gstRate             |-> 18,
      advancePercentage   |-> 50,
      authorizedSignature |-> Undefined,
      clientSignature     |-> Undefined ]

\* the divisor of the two percentages
Hundred == 100

\* Money is an exact rational, held as an integer count of 1/MoneyUnit, so that
\* x * (rate / 100) is computed without rounding for integer inputs.
MoneyUnit == Hundred * Hundred

\* x * (rate / 100) on money
TimesPercent(x, rate) == (x * rate) \div Hundred

\* quotation.items.reduce((acc, item) => acc + item.quantity * item.rate, 0)
RECURSIVE Reduce(_, _)
Reduce(items, acc) ==
    IF items = <<>> THEN acc
    ELSE Reduce(Tail(items), acc + Head(items).quantity * Head(items).rate)

\* Totals with the guard on the tax rate forgotten
TotalsNoGstClamp(items, gstRateIn, advancePercentage) ==
    LET subtotal      == MoneyUnit * Reduce(items, 0)
        gstAmount     == TimesPercent(subtotal, gstRateIn)
        grandTotal    == subtotal + gstAmount
        advanceAmount == TimesPercent(grandTotal, advancePercentage)
        balanceDue    == grandTotal - advanceAmount
    IN  [ subtotal |-> subtotal, gstAmount |-> gstAmount, grandTotal |-> grandTotal,
          advanceAmount |-> advanceAmount, balanceDue |-> balanceDue ]

\* the body of the useMemo callback
Totals(items, gstRateIn, advancePercentage) ==
    LET subtotal      == MoneyUnit * Reduce(items, 0)
        gstRate       == IF gstRateIn >= 0 THEN gstRateIn ELSE 0
        gstAmount     == TimesPercent(subtotal, gstRate)
        grandTotal    == subtotal + gstAmount
        advanceAmount == TimesPercent(grandTotal, advancePercentage)
        balanceDue    == grandTotal - advanceAmount
    IN  [ subtotal |-> subtotal, gstAmount |-> gstAmount, grandTotal |-> grandTotal,
          advanceAmount |-> advanceAmount, balanceDue |-> balanceDue ]

\* UseMemo with quotation.advancePercentage missing from the dependency list
UseMemoStaleAdvance(memo, prev, next) ==
    IF next.items # prev.items \/ next.gstRate # prev.gstRate
    THEN Totals(next.items, next.gstRate, next.advancePercentage)
    ELSE memo

\* useMemo(..., [quotation.items, quotation.gstRate, quotation.advancePercentage]):
\* the callback runs again when a dependency differs from the previous render
UseMemo(memo, prev, next) ==
    IF \/ next.items # prev.items
       \/ next.gstRate # prev.gstRate
       \/ next.advancePercentage # prev.advancePercentage
    THEN Totals(next.items, next.gstRate, next.advancePercentage)
    ELSE memo

\* setQuotation(next) followed by the render it schedules
SetQuotation(next) ==
    /\ quotation' = next
    /\ totals' = UseMemo(totals, quotation, next)

-----------------------------------------------------------------------------
(* Before the component mounts there is no component state *)

NoQuotation == initialQuotation([year |-> 0, month |-> 0], 0)
NoTotals == Totals(<<>>, 0, 0)

Unmounted ==
    /\ mounted = FALSE
    /\ quotation = NoQuotation
    /\ totals = NoTotals
    /\ isDownloading = FALSE
    /\ generatingItems = {}
    /\ calls = {}
    /\ exporting = FALSE
    /\ uuids = 0
    /\ events = 0
    /\ alerts = {}
    /\ exportNumber = <<>>

\* history of the mounts: how many there were, and for the latest one the
\* date it read, the storage it read and the identifier it seeded
NoSession ==
    [count |-> 0, date |-> [year |-> 0, month |-> 0], storage |-> EmptyStorage,
     seeded |-> <<>>]

\* Mount with useState(initialQuotation): the initializer function is left out
MountWithoutInitializer ==
    /\ ~mounted
    /\ mounted' = TRUE
    /\ uuids' = uuids + 1
    /\ quotation' = initialQuotation(today, uuids + 1)
    /\ totals' = Totals(quotation'.items, quotation'.gstRate, quotation'.advancePercentage)
    /\ isDownloading' = FALSE
    /\ generatingItems' = {}
    /\ lastSession' = [count |-> lastSession.count + 1, date |-> today,
                       storage |-> localStorage,
                       seeded |-> quotation'.quotationNumber]
    /\ UNCHANGED <<localStorage, today, calls, exporting, API_KEY, helper, alerts,
                   exportNumber, events>>

\* First render of App: the module-level initialQuotation takes the first
\* token, the useState initializers run, and useMemo computes the totals.
Mount ==
    /\ ~mounted
    /\ mounted' = TRUE
    /\ uuids' = uuids + 1
    /\ quotation' = [initialQuotation(today, uuids + 1) EXCEPT
                        !.quotationNumber = NewQuotationNumber(localStorage, today)]
    /\ totals' = Totals(quotation'.items, quotation'.gstRate, quotation'.advancePercentage)
    /\ isDownloading' = FALSE
    /\ generatingItems' = {}
    /\ lastSession' = [count |-> lastSession.count + 1, date |-> today,
                       storage |-> localStorage,
                       seeded |-> NewQuotationNumber(localStorage, today)]
    /\ UNCHANGED <<localStorage, today, calls, exporting, API_KEY, helper, alerts,
                   exportNumber, events>>

-----------------------------------------------------------------------------
(* The description-generation helper (services/geminiService) *)

NotConfiguredText == <<"API key not configured. Please enter a description manually.">>
FailedText == <<"Failed to generate description. Please try again or enter manually.">>

\* what ai.models.generateContent may do: reject, resolve to a response
\* whose text getter gives undefined, or resolve to a response whose text
\* is `text`
ServiceReplies ==
    { [threw |-> TRUE, defined |-> FALSE, text |-> <<>>],
      [threw |-> FALSE, defined |-> FALSE, text |-> <<>>],
      [threw |-> FALSE, defined |-> TRUE, text |-> <<" ", "G", " ">>] }

\* generateDescription without the test on API_KEY
generateDescriptionNoKeyCheck(key, itemName, reply) ==
    IF reply.threw \/ ~reply.defined THEN FailedText
    ELSE Trim(reply.text)

\* generateDescription(itemName), given what the service does when it is called
\* (undefined.trim() throws inside the try block)
generateDescription(key, itemName, reply) ==
    IF ~key THEN NotConfiguredText
    ELSE IF reply.threw \/ ~reply.defined THEN FailedText
    ELSE Trim(reply.text)

\* no invocation of the helper is being followed
HelperIdle == [pc |-> "idle", itemName |-> <<>>, serviceCalls |-> 0, result |-> <<>>]

-----------------------------------------------------------------------------
(* Inputs of the handlers *)

\* parseFloat on the texts drawn below, none of which has a fraction or an
\* exponent: white space, sign and leading digits are read as parseInt reads them
ParseFloat(s) == ParseInt(s)

\* x || 0 on a number: NaN and 0 are falsy
OrZero(x) == IF isNaN(x) \/ x.value = 0 THEN 0 ELSE x.value

\* Max0 without the clamp
Max0Identity(x) == x

\* Math.max(0, x)
Max0(x) == IF x > 0 THEN x ELSE 0

DescriptionTexts == {<<" ">>, <<"V">>}
QuantityTexts == {<<"-", "1">>, <<"2">>}
RateTexts == {<<"3">>, <<"-", "3">>}
GstTexts == {<<"-", "5">>, <<"X">>, <<"1", "8">>}
AdvanceTexts == {<<"-", "1", "0">>, <<>>, <<"1", "5", "0">>}
NumberTexts == {AEE202312 \o <<"0", "4", "1">>}
DataUrls == {"data:image/png"}

\* the (field, value) pairs the item inputs send: the description as typed,
\* quantity and rate as parseFloat(e.target.value) || 0
ItemEdits ==
    {<<"description", t>> : t \in DescriptionTexts}
        \cup {<<"quantity", OrZero(ParseFloat(t))>> : t \in QuantityTexts}
        \cup {<<"rate", OrZero(ParseFloat(t))>> : t \in RateTexts}

\* tokens crypto.randomUUID has returned so far
Issued == 1..uuids

-----------------------------------------------------------------------------
(* The handlers of App *)

\* ItemChange without the test on the identifier: every item takes the value
ItemChangeEveryItem(items, id, field, value) ==
    [i \in 1..Len(items) |-> [items[i] EXCEPT ![field] = value]]

\* items.map(item => item.id === id ? { ...item, [field]: value } : item)
ItemChange(items, id, field, value) ==
    [i \in 1..Len(items) |->
        IF items[i].id = id THEN [items[i] EXCEPT ![field] = value] ELSE items[i]]

\* Filter with the test inverted: only the addressed item is kept
FilterInverted(items, id) == SelectSeq(items, LAMBDA item : item.id = id)

\* items.filter(item => item.id !== id)
Filter(items, id) == SelectSeq(items, LAMBDA item : item.id # id)

handleQuotationInfoChange(name, value) ==
    /\ mounted
    /\ SetQuotation([quotation EXCEPT ![name] = value])
    /\ UNCHANGED <<localStorage, today, mounted, isDownloading, generatingItems,
                   calls, exporting, uuids, API_KEY, helper, lastSession, alerts, exportNumber>>

handleItemChange(id, field, value) ==
    /\ mounted
    /\ SetQuotation([quotation EXCEPT !.items = ItemChange(@, id, field, value)])
    /\ UNCHANGED <<localStorage, today, mounted, isDownloading, generatingItems,
                   calls, exporting, uuids, API_KEY, helper, lastSession, alerts, exportNumber>>

\* addNewItem with the new row copied from initialQuotation.items[0], whose
\* identifier is the first token
addNewItemFromTemplate ==
    /\ mounted
    /\ uuids < MaxUuids
    /\ uuids' = uuids + 1
    /\ SetQuotation([quotation EXCEPT !.items = Append(@, NewItem(1))])
    /\ UNCHANGED <<localStorage, today, mounted, isDownloading, generatingItems,
                   calls, exporting, API_KEY, helper, lastSession, alerts, exportNumber>>

\* addNewItem with the new row put first
addNewItemFirst ==
    /\ mounted
    /\ uuids < MaxUuids
    /\ uuids' = uuids + 1
    /\ SetQuotation([quotation EXCEPT !.items = <<NewItem(uuids + 1)>> \o @])
    /\ UNCHANGED <<localStorage, today, mounted, isDownloading, generatingItems,
                   calls, exporting, API_KEY, helper, lastSession, alerts, exportNumber>>

addNewItem ==
    /\ mounted
    /\ uuids < MaxUuids
    /\ uuids' = uuids + 1
    /\ SetQuotation([quotation EXCEPT !.items = Append(@, NewItem(uuids + 1))])
    /\ UNCHANGED <<localStorage, today, mounted, isDownloading, generatingItems,
                   calls, exporting, API_KEY, helper, lastSession, alerts, exportNumber>>

removeItem(id) ==
    /\ mounted
    /\ SetQuotation([quotation EXCEPT !.items = Filter(@, id)])
    /\ UNCHANGED <<localStorage, today, mounted, isDownloading, generatingItems,
                   calls, exporting, uuids, API_KEY, helper, lastSession, alerts, exportNumber>>

\* The part of handleGenerateDescription before the await.  The button is
\* rendered per item, disabled while the item is in generatingItems, and
\* passes the item's description as rendered.
handleGenerateDescription(id, currentDescription) ==
    /\ mounted
    /\ id \notin generatingItems
    /\ \E i \in 1..Len(quotation.items) :
          /\ quotation.items[i].id = id
          /\ quotation.items[i].description = currentDescription
    /\ \/ /\ Trim(currentDescription) = <<>>
          /\ UNCHANGED <<generatingItems, calls>>
       \/ /\ Trim(currentDescription) # <<>>
          /\ generatingItems' = generatingItems \cup {id}
          /\ calls' = calls \cup {[id |-> id, itemName |-> currentDescription]}
    /\ UNCHANGED <<localStorage, today, mounted, quotation, totals, isDownloading,
                   exporting, uuids, API_KEY, helper, lastSession, alerts, exportNumber>>

\* GenerationSettles putting the item back when it is no longer in the list
GenerationSettlesUpsert(call, reply) ==
    /\ mounted
    /\ call \in calls
    /\ LET newDescription == generateDescription(API_KEY, call.itemName, reply)
           present == \E i \in 1..Len(quotation.items) : quotation.items[i].id = call.id
       IN  SetQuotation([quotation EXCEPT
               !.items = IF present
                         THEN ItemChange(@, call.id, "description", newDescription)
                         ELSE Append(@, [NewItem(call.id) EXCEPT
                                            !.description = newDescription])])
    /\ generatingItems' = generatingItems \ {call.id}
    /\ calls' = calls \ {call}
    /\ UNCHANGED <<localStorage, today, mounted, isDownloading, exporting, uuids,
                   API_KEY, helper, lastSession, alerts, exportNumber>>

\* GenerationSettles without the finally block
GenerationSettlesNoFinally(call, reply) ==
    /\ mounted
    /\ call \in calls
    /\ LET newDescription == generateDescription(API_KEY, call.itemName, reply)
       IN  SetQuotation([quotation EXCEPT
               !.items = ItemChange(@, call.id, "description", newDescription)])
    /\ calls' = calls \ {call}
    /\ UNCHANGED <<localStorage, today, mounted, isDownloading, generatingItems,
                   exporting, uuids, API_KEY, helper, lastSession, alerts, exportNumber>>

\* The part of handleGenerateDescription after the await: the helper has
\* resolved, the description is set and the finally block clears the item.
GenerationSettles(call, reply) ==
    /\ mounted
    /\ call \in calls
    /\ LET newDescription == generateDescription(API_KEY, call.itemName, reply)
       IN  SetQuotation([quotation EXCEPT
               !.items = ItemChange(@, call.id, "description", newDescription)])
    /\ generatingItems' = generatingItems \ {call.id}
    /\ calls' = calls \ {call}
    /\ UNCHANGED <<localStorage, today, mounted, isDownloading, exporting, uuids,
                   API_KEY, helper, lastSession, alerts, exportNumber>>

\* Math.max(0, parseFloat(e.target.value) || 0)
handleGstChange(text) ==
    /\ mounted
    /\ SetQuotation([quotation EXCEPT !.gstRate = Max0(OrZero(ParseFloat(text)))])
    /\ UNCHANGED <<localStorage, today, mounted, isDownloading, generatingItems,
                   calls, exporting, uuids, API_KEY, helper, lastSession, alerts, exportNumber>>

handleAdvanceChange(text) ==
    /\ mounted
    /\ SetQuotation([quotation EXCEPT
           !.advancePercentage = Max0(OrZero(ParseFloat(text)))])
    /\ UNCHANGED <<localStorage, today, mounted, isDownloading, generatingItems,
                   calls, exporting, uuids, API_KEY, helper, lastSession, alerts, exportNumber>>

handleSaveSignature(type, dataUrl) ==
    /\ mounted
    /\ IF type = "authorized"
       THEN SetQuotation([quotation EXCEPT !.authorizedSignature = dataUrl])
       ELSE SetQuotation([quotation EXCEPT !.clientSignature = dataUrl])
    /\ UNCHANGED <<localStorage, today, mounted, isDownloading, generatingItems,
                   calls, exporting, uuids, API_KEY, helper, lastSession, alerts, exportNumber>>

\* handlePrint persisting a recomputed identifier instead of the one in state
handlePrintRecomputed ==
    /\ mounted
    /\ localStorage' =
          SetItem(localStorage, LastKey, NewQuotationNumber(localStorage, today))
    /\ UNCHANGED <<today, mounted, quotation, totals, isDownloading, generatingItems,
                   calls, exporting, uuids, API_KEY, helper, lastSession, alerts, exportNumber>>

handlePrint ==
    /\ mounted
    /\ localStorage' = SetItem(localStorage, LastKey, quotation.quotationNumber)
    /\ UNCHANGED <<today, mounted, quotation, totals, isDownloading, generatingItems,
                   calls, exporting, uuids, API_KEY, helper, lastSession, alerts, exportNumber>>

\* handleDownloadPdf with localStorage.setItem moved before the test on printArea
handleDownloadPdfWritesFirst(printArea) ==
    /\ mounted
    /\ ~isDownloading
    /\ localStorage' = SetItem(localStorage, LastKey, quotation.quotationNumber)
    /\ IF ~printArea
       THEN /\ isDownloading' = FALSE
            /\ UNCHANGED <<exporting, exportNumber>>
       ELSE /\ isDownloading' = TRUE
            /\ exporting' = TRUE
            /\ exportNumber' = quotation.quotationNumber
    /\ UNCHANGED <<today, mounted, quotation, totals, generatingItems, calls, uuids,
                   API_KEY, helper, lastSession, alerts>>

\* The part of handleDownloadPdf before the await.  The button is disabled
\* while isDownloading.  printArea is what getElementById('print-area') finds.
handleDownloadPdf(printArea) ==
    /\ mounted
    /\ ~isDownloading
    /\ IF ~printArea
       THEN /\ isDownloading' = FALSE
            /\ UNCHANGED <<localStorage, exporting, exportNumber>>
       ELSE /\ isDownloading' = TRUE
            /\ localStorage' = SetItem(localStorage, LastKey, quotation.quotationNumber)
            /\ exporting' = TRUE
            /\ exportNumber' = quotation.quotationNumber
    /\ UNCHANGED <<today, mounted, quotation, totals, generatingItems, calls, uuids,
                   API_KEY, helper, lastSession, alerts>>

PdfErrorText == <<"Sorry, there was an error generating the PDF. Please try again.">>

\* ExportSettles with setIsDownloading(false) at the end of the try block
\* instead of in a finally block
ExportSettlesNoFinally(threw) ==
    /\ mounted
    /\ exporting
    /\ exporting' = FALSE
    /\ exportNumber' = <<>>
    /\ alerts' = IF threw THEN alerts \cup {PdfErrorText} ELSE alerts
    /\ isDownloading' = threw
    /\ UNCHANGED <<localStorage, today, mounted, quotation, totals, generatingItems,
                   calls, uuids, API_KEY, helper, lastSession>>

\* The part of handleDownloadPdf after the await: rendering resolved and the
\* file was saved under the identifier in the closure, or something in the
\* try block threw and the catch block alerts; finally clears the flag.
ExportSettles(threw) ==
    /\ mounted
    /\ exporting
    /\ exporting' = FALSE
    /\ exportNumber' = <<>>
    /\ alerts' = IF threw THEN alerts \cup {PdfErrorText} ELSE alerts
    /\ isDownloading' = FALSE
    /\ UNCHANGED <<localStorage, today, mounted, quotation, totals, generatingItems,
                   calls, uuids, API_KEY, helper, lastSession>>

-----------------------------------------------------------------------------
(* Specification of the application: one session from a fresh device *)

Init ==
    /\ localStorage = EmptyStorage
    /\ today \in Dates
    /\ API_KEY \in BOOLEAN
    /\ Unmounted
    /\ helper = HelperIdle
    /\ lastSession = NoSession

\* a click or an edit: the event loop runs the handler to completion
UserEvent(Handler) ==
    /\ events < MaxEvents
    /\ events' = events + 1
    /\ Handler

\* an awaited promise settles: the event loop resumes the async handler
Completion(Handler) ==
    /\ events' = events
    /\ Handler

Next ==
    \/ Mount
    \/ \E value \in NumberTexts :
          UserEvent(handleQuotationInfoChange("quotationNumber", value))
    \/ \E id \in Issued, edit \in ItemEdits :
          UserEvent(handleItemChange(id, edit[1], edit[2]))
    \/ UserEvent(addNewItem)
    \/ \E id \in Issued : UserEvent(removeItem(id))
    \/ \E id \in Issued, text \in DescriptionTexts \cup {<<>>} :
          UserEvent(handleGenerateDescription(id, text))
    \/ \E call \in calls, reply \in ServiceReplies :
          Completion(GenerationSettles(call, reply))
    \/ \E text \in GstTexts : UserEvent(handleGstChange(text))
    \/ \E text \in AdvanceTexts : UserEvent(handleAdvanceChange(text))
    \/ \E type \in {"authorized", "client"}, dataUrl \in DataUrls :
          UserEvent(handleSaveSignature(type, dataUrl))
    \/ UserEvent(handlePrint)
    \/ \E printArea \in BOOLEAN : UserEvent(handleDownloadPdf(printArea))
    \/ \E threw \in BOOLEAN : Completion(ExportSettles(threw))

Spec == Init /\ [][Next]_vars

\* the generation call for item id settles
SettlesFor(id) ==
    \E call \in calls, reply \in ServiceReplies :
        /\ call.id = id
        /\ Completion(GenerationSettles(call, reply))

\* The application when every awaited helper call settles: the helper's
\* promise is resolved by the service's reply or by its catch block, and the
\* event loop then resumes the handler.
SpecSettling == Spec /\ \A id \in 1..MaxUuids : WF_vars(SettlesFor(id))

-----------------------------------------------------------------------------
(* Specification of successive sessions on one device: the page is closed  *)
(* or reloaded and the application starts again, in the same month or in a *)
(* later one                                                               *)

\* application starts per device
MaxSessions == 2
\* user events per session
MaxSessionEvents == 3

NotEarlier(d, e) == d.year * 12 + d.month >= e.year * 12 + e.month

\* The page is closed or reloaded: the component state and the pending
\* handlers are gone, localStorage stays, the clock may have moved on.
Close ==
    /\ mounted
    /\ lastSession.count < MaxSessions
    /\ mounted' = FALSE
    /\ quotation' = NoQuotation
    /\ totals' = NoTotals
    /\ isDownloading' = FALSE
    /\ generatingItems' = {}
    /\ calls' = {}
    /\ exporting' = FALSE
    /\ uuids' = 0
    /\ events' = 0
    /\ alerts' = {}
    /\ exportNumber' = <<>>
    /\ today' \in {d \in Dates : NotEarlier(d, today)}
    /\ UNCHANGED <<localStorage, API_KEY, helper, lastSession>>

SessionEvent(Handler) ==
    /\ events < MaxSessionEvents
    /\ events' = events + 1
    /\ Handler

NextSessions ==
    \/ Mount
    \/ Close
    \/ \E value \in NumberTexts :
          SessionEvent(handleQuotationInfoChange("quotationNumber", value))
    \/ \E id \in Issued, edit \in ItemEdits :
          SessionEvent(handleItemChange(id, edit[1], edit[2]))
    \/ SessionEvent(addNewItem)
    \/ \E id \in Issued : SessionEvent(removeItem(id))
    \/ \E id \in Issued, text \in DescriptionTexts \cup {<<>>} :
          SessionEvent(handleGenerateDescription(id, text))
    \/ \E call \in calls, reply \in ServiceReplies :
          Completion(GenerationSettles(call, reply))
    \/ \E text \in GstTexts : SessionEvent(handleGstChange(text))
    \/ \E text \in AdvanceTexts : SessionEvent(handleAdvanceChange(text))
    \/ \E type \in {"authorized", "client"}, dataUrl \in DataUrls :
          SessionEvent(handleSaveSignature(type, dataUrl))
    \/ SessionEvent(handlePrint)
    \/ \E printArea \in BOOLEAN : SessionEvent(handleDownloadPdf(printArea))
    \/ \E threw \in BOOLEAN : Completion(ExportSettles(threw))

SpecSessions == Init /\ [][NextSessions]_vars

-----------------------------------------------------------------------------
(* Specification of the numbering function: the initializer applied to     *)
(* every persisted value and date of a bounded set                         *)

SuffixChars == {"0", "7", "9", "X", "-", " "}

RECURSIVE StringsUpTo(_, _)
StringsUpTo(chars, n) ==
    IF n = 0 THEN {<<>>}
    ELSE LET shorter == StringsUpTo(chars, n - 1)
         IN  shorter \cup {<<c>> \o s : c \in chars, s \in shorter}

\* persisted values: none, any short string, and any short string after the
\* prefix of one of the months
PersistedInputs ==
    LET suffixes == StringsUpTo(SuffixChars, MaxSuffixLen)
    IN  {EmptyStorage}
        \cup {SetItem(EmptyStorage, LastKey, s) : s \in suffixes}
        \cup {SetItem(EmptyStorage, LastKey, Prefix(d) \o s) : d \in Dates, s \in suffixes}

InitNumber ==
    /\ localStorage \in PersistedInputs
    /\ today \in Dates
    /\ API_KEY = TRUE
    /\ Unmounted
    /\ helper = HelperIdle
    /\ lastSession = NoSession

NextNumber == Mount

SpecNumber == InitNumber /\ [][NextNumber]_vars

-----------------------------------------------------------------------------
(* Specification of the totals computation: the useMemo callback applied   *)
(* to every Quotation of a bounded set, negative rates included            *)

TotalsQuantities == {-1, 0, 2}
TotalsRates == {0, 3, 7}
TotalsGstRates == {-5, 0, 18, 150}
TotalsAdvances == {-10, 0, 50, 150}

RECURSIVE ItemLists(_)
ItemLists(n) ==
    IF n = 0 THEN {<<>>}
    ELSE LET shorter == ItemLists(n - 1)
         IN  shorter \cup
             { Append(items, [NewItem(Len(items) + 1) EXCEPT
                                 !.quantity = q, !.rate = r]) :
                 items \in {l \in shorter : Len(l) = n - 1},
                 q \in TotalsQuantities, r \in TotalsRates }

InitTotals ==
    /\ localStorage = EmptyStorage
    /\ today = Jan2024
    /\ API_KEY = TRUE
    /\ mounted = FALSE
    /\ \E items \in ItemLists(MaxTotalsItems), gst \in TotalsGstRates,
          advance \in TotalsAdvances :
          quotation = [initialQuotation(today, 1) EXCEPT
                          !.items = items, !.gstRate = gst,
                          !.advancePercentage = advance]
    /\ totals = NoTotals
    /\ isDownloading = FALSE
    /\ generatingItems = {}
    /\ calls = {}
    /\ exporting = FALSE
    /\ uuids = Len(quotation.items)
    /\ events = 0
    /\ alerts = {}
    /\ exportNumber = <<>>
    /\ helper = HelperIdle
    /\ lastSession = NoSession

\* a render of App with the given Quotation state: useMemo runs its callback
Render ==
    /\ ~mounted
    /\ mounted' = TRUE
    /\ totals' = Totals(quotation.items, quotation.gstRate, quotation.advancePercentage)
    /\ UNCHANGED <<localStorage, today, quotation, isDownloading, generatingItems,
                   calls, exporting, uuids, API_KEY, helper, lastSession, alerts, exportNumber, events>>

NextTotals == Render

SpecTotals == InitTotals /\ [][NextTotals]_vars

-----------------------------------------------------------------------------
(* Specification of the helper: one invocation of generateDescription      *)
(* followed from the call to the value its promise resolves to, for every  *)
(* item name of a bounded set, with and without a key                      *)

\* longest item name drawn
MaxNameLen == 3

NameChars == {" ", "V", "'"}
ItemNames == StringsUpTo(NameChars, MaxNameLen)

InitHelper ==
    /\ localStorage = EmptyStorage
    /\ today = Jan2024
    /\ API_KEY \in BOOLEAN
    /\ Unmounted
    /\ lastSession = NoSession
    /\ \E itemName \in ItemNames :
          helper = [HelperIdle EXCEPT !.pc = "called", !.itemName = itemName]

\* generateDescription up to its first await: without a key it returns at
\* once, with a key it calls ai.models.generateContent
HelperEnters ==
    /\ helper.pc = "called"
    /\ IF ~API_KEY
       THEN \E reply \in ServiceReplies :
               helper' = [helper EXCEPT
                   !.pc = "resolved",
                   !.result = generateDescription(API_KEY, helper.itemName, reply)]
       ELSE helper' = [helper EXCEPT !.pc = "awaiting", !.serviceCalls = @ + 1]
    /\ UNCHANGED <<localStorage, today, mounted, quotation, totals, isDownloading,
                   generatingItems, calls, exporting, uuids, API_KEY, events, alerts,
                   exportNumber, lastSession>>

\* generateDescription after the await: the service call has settled
HelperResumes(reply) ==
    /\ helper.pc = "awaiting"
    /\ helper' = [helper EXCEPT
           !.pc = "resolved",
           !.result = generateDescription(API_KEY, helper.itemName, reply)]
    /\ UNCHANGED <<localStorage, today, mounted, quotation, totals, isDownloading,
                   generatingItems, calls, exporting, uuids, API_KEY, events, alerts,
                   exportNumber, lastSession>>

NextHelper ==
    \/ HelperEnters
    \/ \E reply \in ServiceReplies : HelperResumes(reply)

SpecHelper == InitHelper /\ [][NextHelper]_vars

-----------------------------------------------------------------------------
(* Claims about the numbering, under SpecNumber *)


Persisted == GetItem(localStorage, LastKey)

\* the persisted value is the current month's prefix followed by PersistedSuffix
HasCurrentPrefix ==
    /\ ~Persisted.isNull
    /\ \E k \in 0..Len(Persisted.str) :
          /\ k = Len(Prefix(today))
          /\ SubSeq(Persisted.str, 1, k) = Prefix(today)

PersistedSuffix == SubSeq(Persisted.str, Len(Prefix(today)) + 1, Len(Persisted.str))

\* C1: when the persisted last-issued value starts with the current month's
\* prefix and its remaining suffix parses to an integer n, the identifier
\* seeded at startup is that prefix followed by n+1 padded with zeros on the
\* left to three characters; 'AEE-202401-007' in January 2024 gives
\* 'AEE-202401-008'.
C1_StartupIncrements ==
    mounted =>
        /\ (HasCurrentPrefix /\ ~isNaN(ParseInt(PersistedSuffix))) =>
              quotation.quotationNumber =
                  Prefix(today)
                      \o PadStart(ToString(ParseInt(PersistedSuffix).value + 1), 3, "0")
        /\ (today = Jan2024 /\ Persisted = Str(AEE202401 \o <<"0", "0", "7">>)) =>
              quotation.quotationNumber = AEE202401 \o <<"0", "0", "8">>

C1_Witness ==
    /\ mounted
    /\ today = Jan2024
    /\ Persisted = Str(AEE202401 \o <<"0", "0", "7">>)
    /\ quotation.quotationNumber = AEE202401 \o <<"0", "0", "8">>

\* C2: when the persisted last-issued value is missing, does not start with
\* the current year+month prefix, or has a suffix that does not parse as an
\* integer, the seeded identifier is the current prefix followed by '001';
\* the initializer yields that identifier for every such persisted value
\* (no error).
C2_StartupResets ==
    /\ (~HasCurrentPrefix \/ isNaN(ParseInt(PersistedSuffix))) =>
          /\ NewQuotationNumber(localStorage, today) = Prefix(today) \o <<"0", "0", "1">>
          /\ mounted => quotation.quotationNumber = Prefix(today) \o <<"0", "0", "1">>
    /\ (mounted /\ today = Jan2024 /\ Persisted = Str(AEE202401 \o <<"X", "X", "X">>)) =>
          quotation.quotationNumber = AEE202401 \o <<"0", "0", "1">>

C2_Witness ==
    /\ mounted
    /\ today = Jan2024
    /\ Persisted = Str(AEE202312 \o <<"0", "0", "7">>)
    /\ quotation.quotationNumber = AEE202401 \o <<"0", "0", "1">>

\* C3: for every persisted last-issued value and every current date, the
\* identifier produced at startup has the form AEE-YYYYMM-NNN where NNN is
\* exactly three decimal digits.
C3_ThreeDigitFormat ==
    mounted =>
        LET number == quotation.quotationNumber
            prefix == Prefix(today)
        IN  /\ Len(number) = Len(prefix) + 3
            /\ SubSeq(number, 1, Len(prefix)) = prefix
            /\ \A i \in (Len(prefix) + 1)..Len(number) : IsDigit(number[i])

-----------------------------------------------------------------------------
(* Claims about persistence, under Spec *)

ManualNumber == AEE202312 \o <<"0", "4", "1">>

\* C4: the persisted last-issued identifier changes only in a print or
\* export step, and a print or an export that finds its print area writes
\* exactly the quotation identifier held in state at that moment (a manually
\* edited one included, verbatim); every other step leaves the persisted
\* value unchanged.
C4_PersistedOnlyByPrintOrExport ==
    [][ /\ (localStorage' # localStorage) =>
              /\ handlePrint \/ handleDownloadPdf(TRUE)
              /\ localStorage' = SetItem(localStorage, LastKey, quotation.quotationNumber)
        /\ (handlePrint \/ handleDownloadPdf(TRUE)) =>
              /\ Persisted' = Str(quotation.quotationNumber)
              /\ quotation' = quotation
      ]_vars

C4_Witness ==
    /\ mounted
    /\ quotation.quotationNumber = ManualNumber
    /\ Persisted = Str(ManualNumber)
    /\ quotation.authorizedSignature # Undefined

-----------------------------------------------------------------------------
(* Claims about the derived totals *)

\* sum of quantity * rate over the items, by position
RECURSIVE SumAmounts(_, _)
SumAmounts(items, n) ==
    IF n = 0 THEN 0
    ELSE SumAmounts(items, n - 1) + items[n].quantity * items[n].rate

TotalsAreZero ==
    /\ totals.subtotal = 0
    /\ totals.gstAmount = 0
    /\ totals.grandTotal = 0
    /\ totals.advanceAmount = 0
    /\ totals.balanceDue = 0

\* C5: in every reachable state the derived totals are determined by the
\* current items, tax rate and advance percentage: subtotal is the sum of
\* quantity*rate, taxAmount = subtotal*(taxRate/100), grandTotal = subtotal +
\* taxAmount, advanceAmount = grandTotal*(advancePercentage/100), balanceDue =
\* grandTotal - advanceAmount; an empty item list gives 0 for all five, and
\* with tax 0 and advance 0 grandTotal = subtotal and balanceDue = grandTotal.
C5_TotalsFollowState ==
    mounted =>
        /\ totals.subtotal = MoneyUnit * SumAmounts(quotation.items, Len(quotation.items))
        /\ Hundred * totals.gstAmount = totals.subtotal * quotation.gstRate
        /\ totals.grandTotal = totals.subtotal + totals.gstAmount
        /\ Hundred * totals.advanceAmount = totals.grandTotal * quotation.advancePercentage
        /\ totals.balanceDue = totals.grandTotal - totals.advanceAmount
        /\ quotation.items = <<>> => TotalsAreZero
        /\ (quotation.gstRate = 0 /\ quotation.advancePercentage = 0) =>
              /\ totals.grandTotal = totals.subtotal
              /\ totals.balanceDue = totals.grandTotal

C5_Witness ==
    /\ mounted
    /\ Len(quotation.items) >= 2
    /\ \A i \in 1..Len(quotation.items) :
          quotation.items[i].quantity * quotation.items[i].rate # 0
    /\ quotation.gstRate > 0
    /\ quotation.advancePercentage > Hundred
    /\ totals.balanceDue < 0

C7_TaxRateClampedBelowOnly ==
    mounted =>
        /\ totals.subtotal = MoneyUnit * SumAmounts(quotation.items, Len(quotation.items))
        /\ quotation.gstRate < 0 =>
              /\ totals.gstAmount = 0
              /\ totals.grandTotal = totals.subtotal
        /\ quotation.gstRate > Hundred =>
              /\ Hundred * totals.gstAmount = totals.subtotal * quotation.gstRate
              /\ totals.grandTotal = totals.subtotal + totals.gstAmount

C7_Witness ==
    /\ mounted
    /\ quotation.gstRate < 0
    /\ totals.subtotal > 0
    /\ totals.gstAmount = 0

-----------------------------------------------------------------------------
(* Claims about the line items, under Spec *)

ItemIds(items) == {items[i].id : i \in 1..Len(items)}

\* the quotation apart from its items
Rest(q) == [q EXCEPT !.items = <<>>]

\* C8: addNewItem appends exactly one new item at the end of the item
\* sequence, with a freshly generated identifier, empty description, quantity
\* 1 and rate 0; the items already present keep their identifier, field
\* values and order.
C8_AddAppendsOneFreshItem ==
    [][ addNewItem =>
          LET old == quotation.items
              new == quotation'.items
          IN  /\ Len(new) = Len(old) + 1
              /\ SubSeq(new, 1, Len(old)) = old
              /\ new[Len(new)].description = <<>>
              /\ new[Len(new)].quantity = 1
              /\ new[Len(new)].rate = 0
              /\ new[Len(new)].id \notin ItemIds(old) \cup Issued
              /\ DOMAIN new[Len(new)] = {"id", "description", "quantity", "rate"}
      ]_vars

C8_Witness ==
    /\ mounted
    /\ Len(quotation.items) = 2
    /\ quotation.items[1].description = <<"V">>
    /\ quotation.items[1].quantity = 2
    /\ quotation.items[2] = NewItem(2)

\* C9: after any sequence of add, remove and update operations and
\* description-generation completions from the initial one-item quotation, no
\* two items of the quotation share an identifier (the generator never
\* returning a token twice).
C9_ItemIdsUnique ==
    mounted =>
        \A i, j \in 1..Len(quotation.items) :
            quotation.items[i].id = quotation.items[j].id => i = j

C9_Witness ==
    /\ mounted
    /\ Len(quotation.items) = 2
    /\ quotation.items[1].id = 2
    /\ quotation.items[2].id = 3
    /\ quotation.items[1].description = <<"G">>

\* C10: removeItem(id) removes exactly the item whose identifier is id and
\* keeps every other item with its values and order; when no item has that
\* identifier the item sequence is unchanged; no other part of the quotation
\* changes.
C10_RemoveExactlyOne ==
    [][ \A id \in Issued :
          removeItem(id) =>
              LET old == quotation.items
                  new == quotation'.items
              IN  /\ \/ /\ id \notin ItemIds(old)
                        /\ new = old
                     \/ \E k \in 1..Len(old) :
                          /\ old[k].id = id
                          /\ new = SubSeq(old, 1, k - 1) \o SubSeq(old, k + 1, Len(old))
                  /\ Rest(quotation') = Rest(quotation)
      ]_vars

C10_Witness ==
    /\ mounted
    /\ uuids = 3
    /\ Len(quotation.items) = 2
    /\ quotation.items[1].id = 1
    /\ quotation.items[1].rate = 3
    /\ quotation.items[2].id = 3

-----------------------------------------------------------------------------
(* Claims about item updates and description generation, under Spec *)

\* the identifiers of the items, in order
IdSeq(items) == [i \in 1..Len(items) |-> items[i].id]

\* C11: handleItemChange(id, field, value) replaces only the named field of
\* the item whose identifier is id and leaves every other field of that item,
\* every other item, the order and the length of the item sequence and the
\* rest of the quotation unchanged; the identifiers of the items are the same
\* after any step that keeps the number of items; a negative quantity or rate
\* is stored as given.
C11_UpdateOnlyNamedField ==
    [][ /\ \A id \in Issued, edit \in ItemEdits :
              handleItemChange(id, edit[1], edit[2]) =>
                  LET old == quotation.items
                      new == quotation'.items
                  IN  /\ Len(new) = Len(old)
                      /\ \A i \in 1..Len(old) :
                            IF old[i].id = id
                            THEN /\ new[i][edit[1]] = edit[2]
                                 /\ \A f \in DOMAIN old[i] \ {edit[1]} :
                                       new[i][f] = old[i][f]
                                 /\ DOMAIN new[i] = DOMAIN old[i]
                            ELSE new[i] = old[i]
                      /\ Rest(quotation') = Rest(quotation)
        /\ (mounted /\ Len(quotation'.items) = Len(quotation.items)) =>
              IdSeq(quotation'.items) = IdSeq(quotation.items)
      ]_vars

\* C12: an item's identifier is in generatingItems exactly while a generation
\* call for it is awaited: the call's start adds it, the call's settling
\* (with the generated text or with a fallback text) removes it, and every
\* identifier that enters the set is eventually removed, the call settling.
C12_InProgressWhileAwaited ==
    /\ [](generatingItems = {call.id : call \in calls})
    /\ [][ /\ \A id \in Issued, text \in DescriptionTexts :
                (handleGenerateDescription(id, text) /\ Trim(text) # <<>>) =>
                    (id \in generatingItems' /\ id \notin generatingItems)
          /\ \A call \in calls, reply \in ServiceReplies :
                GenerationSettles(call, reply) =>
                    (call.id \in generatingItems /\ call.id \notin generatingItems')
        ]_vars
    /\ \A id \in 1..MaxUuids : []<>(id \notin generatingItems)

C12_Witness ==
    /\ mounted
    /\ Len(quotation.items) = 2
    /\ quotation.items[1].description = FailedText
    /\ 1 \notin generatingItems
    /\ 2 \in generatingItems

\* C17: when a generation call settles after its item was removed, the item
\* sequence is unchanged (the item is not put back, no other item changes)
\* and the identifier leaves generatingItems; when the item is still there,
\* only its description changes, to the text the helper returned, and the
\* quantity and rate it has at that moment, edits made while the call was
\* pending included, are kept.
C17_LateCompletion ==
    [][ \A call \in calls, reply \in ServiceReplies :
          GenerationSettles(call, reply) =>
              LET old  == quotation.items
                  new  == quotation'.items
                  text == generateDescription(API_KEY, call.itemName, reply)
              IN  /\ call.id \notin generatingItems'
                  /\ Rest(quotation') = Rest(quotation)
                  /\ IF call.id \notin ItemIds(old)
                     THEN new = old
                     ELSE /\ Len(new) = Len(old)
                          /\ \A i \in 1..Len(old) :
                                new[i] = IF old[i].id = call.id
                                         THEN [old[i] EXCEPT !.description = text]
                                         ELSE old[i]
      ]_vars

\* a call is awaited for an item that has been removed, next to an item
\* whose quantity was edited
C17_Witness ==
    /\ mounted
    /\ \E call \in calls : call.id = 1 /\ call.id \notin ItemIds(quotation.items)
    /\ generatingItems = {1}
    /\ Len(quotation.items) = 1
    /\ quotation.items[1].quantity = -1

C11_Witness ==
    /\ mounted
    /\ Len(quotation.items) = 2
    /\ quotation.items[1].id = 1
    /\ quotation.items[1].description = <<"V">>
    /\ quotation.items[1].quantity = -1
    /\ quotation.items[1].rate = -3
    /\ quotation.items[2] = NewItem(2)

-----------------------------------------------------------------------------
(* Claims about the tax and advance inputs, under Spec *)

\* the text is not a number, or is a negative one
NegativeOrNotNumeric(text) == isNaN(ParseFloat(text)) \/ ParseFloat(text).value < 0

BadGstTexts == {text \in GstTexts : NegativeOrNotNumeric(text)}
BadAdvanceTexts == {text \in AdvanceTexts : NegativeOrNotNumeric(text)}

\* C18: in every state reached through handleGstChange and
\* handleAdvanceChange the stored tax rate and advance percentage are both at
\* least 0, a negative or non-numeric input being stored as 0, so the tax
\* amount and the advance amount are not negative whenever the subtotal is
\* not negative.
C18_StoredRatesNonNegative ==
    /\ [](mounted =>
            /\ quotation.gstRate >= 0
            /\ quotation.advancePercentage >= 0
            /\ totals.subtotal >= 0 =>
                  (totals.gstAmount >= 0 /\ totals.advanceAmount >= 0))
    /\ [][ /\ \A text \in BadGstTexts :
                quotation'.gstRate = 0 \/ ~handleGstChange(text)
          /\ \A text \in BadAdvanceTexts :
                quotation'.advancePercentage = 0 \/ ~handleAdvanceChange(text)
        ]_vars

C18_Witness ==
    /\ mounted
    /\ quotation.gstRate = 0
    /\ quotation.advancePercentage = 0
    /\ totals.subtotal > 0
    /\ totals.gstAmount = 0
    /\ totals.advanceAmount = 0

-----------------------------------------------------------------------------
(* Claims about the export, under Spec *)

\* C14: isDownloading is set when an export starts and cleared on every way
\* it ends (rendering succeeds, rendering throws, the print area is missing),
\* so it is set exactly while rendering is awaited; a rendering failure is
\* caught and reported by an alert, and the settling of an export, failed or
\* not, leaves the quotation state unchanged.
C14_IsDownloadingCleared ==
    /\ [](isDownloading <=> exporting)
    /\ [][ /\ handleDownloadPdf(TRUE) => (isDownloading' /\ alerts' = alerts)
          /\ handleDownloadPdf(FALSE) => (~isDownloading' /\ alerts' = alerts)
          /\ \A threw \in BOOLEAN :
                ExportSettles(threw) =>
                    /\ ~isDownloading'
                    /\ quotation' = quotation
                    /\ totals' = totals
                    /\ alerts' = IF threw THEN alerts \cup {PdfErrorText} ELSE alerts
        ]_vars

C14_Witness ==
    /\ mounted
    /\ ~isDownloading
    /\ ~exporting
    /\ alerts = {PdfErrorText}

-----------------------------------------------------------------------------
(* Claims about successive sessions, under SpecSessions *)

\* largest sequence number the claim is stated for
MaxSequence == 50

\* prefix followed by n padded to three characters
Numbered(prefix, n) == prefix \o PadStart(ToString(n), 3, "0")

\* C15: a startup in the month of the previous startup seeds the identifier
\* that previous session was seeded with when nothing was persisted in
\* between (no print, no export), and seeds sequence n+1 when the persisted
\* identifier is the current month's prefix followed by sequence n, as a
\* print or export of that identifier leaves it; a print or an export
\* persists the identifier in state and does not change it, and closing the
\* page keeps the persisted value.
C15_SequenceAcrossSessions ==
    [][ /\ (Mount /\ lastSession.count > 0 /\ today = lastSession.date) =>
              /\ localStorage = lastSession.storage =>
                    quotation'.quotationNumber = lastSession.seeded
              /\ \A n \in 0..MaxSequence :
                    Persisted = Str(Numbered(Prefix(today), n)) =>
                        quotation'.quotationNumber = Numbered(Prefix(today), n + 1)
        /\ (handlePrint \/ handleDownloadPdf(TRUE)) =>
              /\ quotation' = quotation
              /\ Persisted' = Str(quotation.quotationNumber)
        /\ Close => Persisted' = Persisted
      ]_vars

C15_Witness ==
    /\ mounted
    /\ today = Jan2024
    /\ lastSession.count = 2
    /\ lastSession.date = Jan2024
    /\ lastSession.storage = SetItem(EmptyStorage, LastKey, Numbered(AEE202401, 1))
    /\ quotation.quotationNumber = Numbered(AEE202401, 2)
    /\ Persisted = Str(Numbered(AEE202401, 2))

-----------------------------------------------------------------------------
(* Claims about the helper, under SpecHelper *)

\* C13: generateDescription never propagates an error: without an API key
\* its promise resolves to the fixed 'not configured' text and the service
\* is not called; with a key the service is called once, and when that call
\* fails (it rejects, or its response has no text) the promise resolves to
\* the fixed 'failed to generate' text; in every case the invocation ends
\* resolved to a string.
C13_HelperAlwaysResolves ==
    /\ [](helper.pc \in {"called", "awaiting", "resolved"})
    /\ [](helper.pc = "resolved" =>
            /\ helper.result \in Seq(STRING)
            /\ ~API_KEY => (helper.result = NotConfiguredText /\ helper.serviceCalls = 0)
            /\ API_KEY => helper.serviceCalls = 1)
    /\ [][ \A reply \in ServiceReplies :
              HelperResumes(reply) =>
                  /\ helper'.pc = "resolved"
                  /\ (reply.threw \/ ~reply.defined) => helper'.result = FailedText
                  /\ (~reply.threw /\ reply.defined) => helper'.result = Trim(reply.text)
        ]_vars

C13_Witness ==
    /\ helper.pc = "resolved"
    /\ API_KEY
    /\ helper.serviceCalls = 1
    /\ helper.result = FailedText

====
